---- MODULE Spec2Model ----
(***************************************************************************)
(* Verification model of mnsgrosa/data_sus.                                *)
(*                                                                         *)
(*   SpecStore    the SQLite-backed dataset store SragDb, in its two       *)
(*                variants: src/agentic/agent_tools/tools_utils/db and     *)
(*                src/db                                                   *)
(*   Spec         one StatisticalAgent.run: the compiled LangGraph graph   *)
(*                (assistant, tools), then process_tool_results            *)
(*   SpecClassify process_tool_results as a function of the final state    *)
(*   SpecApi      the HTTP handlers of src/api/fast.py, the acquisition      *)
(*                helper and the tools of src/agentic/agent_tools            *)
(*   SpecUi       the script of app.py, one run per interaction              *)
(*   SpecLogger   MainLogger constructions                                   *)
(*   SpecSerialize   the two JSON serializers as functions of one value      *)
(*   SpecStruct      process_tool_results over data-dictionary results       *)
(*   SpecExtract     extract_data_dictionary over the converter's tables     *)
(*   SpecConnection  the connections and units of work of one SragDb         *)
(*   SpecSession     one UI session of app.py over runs of the agent         *)
(*   SpecFigures     the figures bucket over runs that reuse the state       *)
(***************************************************************************)
EXTENDS Integers, Sequences, FiniteSets, TLC

VARIABLES
    logger,       \* the attributes a MainLogger instance answers to
    variant,      \* which SragDb class the process imported
    tbl,          \* committed rows of the table data_sus, in rowid order
    call,         \* the last store call: its input, its result, the rows before it
    node,         \* the graph node the run is at
    status,       \* idle | running | returned | raised
    messages,     \* the "messages" channel of the graph state
    produced,     \* tool-result turns the tools step has built in the current step
    llm_calls,    \* completions requested from the model in this run
    issued,       \* tool calls the model has asked for so far
    run_in,       \* run()'s arguments, kept for reference
    buckets,      \* figures, report, summary, struct of the state
    scan,         \* the input and the result of the function a specification applies
    http,         \* SpecApi: the last request served, its response, the store reads
    ui,           \* SpecUi: st.session_state.chat_history and the last script run
    handlers      \* SpecLogger: per logger name, constructions and attached handlers

storeVars == <<variant, tbl, call>>
agentVars == <<node, status, messages, produced, llm_calls, issued, run_in, buckets>>
vars == <<logger, variant, tbl, call, node, status, messages, produced, llm_calls,
          issued, run_in, buckets, scan, http, ui, handlers>>
otherVars == <<http, ui, handlers>>

\* The three are not in use outside their specifications.
OtherIdle == http = <<>> /\ ui = <<>> /\ handlers = <<>>

(***************************************************************************)
(* Bounds of the model.                                                    *)
(***************************************************************************)
MaxBatch == 2
MaxRows == 4

(***************************************************************************)
(* Logging.  SragDb and StatisticalAgent inherit MainLogger and call       *)
(* self.info / self.error; the tool modules call logger.info /             *)
(* logger.error on a MainLogger.  The class of src/utils/logger.py has a   *)
(* constructor only: its instances have the attribute logger (a            *)
(* logging.Logger) and nothing else, and self.info is an AttributeError.   *)
(* LoggingContract is the logger the specification describes, which also   *)
(* answers to info, error and warning: such a call writes a line and       *)
(* returns.  The model runs the program with either.                       *)
(***************************************************************************)
MainLogger == {"logger"}
LoggingContract == {"logger", "info", "error", "warning"}
LoggerClasses == {MainLogger, LoggingContract}

MainLoggerExposes(method) == method \in logger

(***************************************************************************)
(* The store.  A cell is written as its SQL literal; NULL is SQL NULL      *)
(* (None or NaN on the Python side), UNBINDABLE a Python object sqlite3    *)
(* has no adapter for.  year is an INTEGER stamped by the acquisition.     *)
(***************************************************************************)
NULL == "NULL"
UNBINDABLE == "<object>"

AgenticCols == {"year", "SG_UF_NOT", "EVOLUCAO", "DT_NOTIFIC", "SEM_NOT", "UTI",
                "VACINA_COV", "HOSPITAL"}
LegacyCols == {"year", "SG_UF_NOT", "DT_NOTIFIC", "UTI", "VACINA_COV", "HOSPITAL"}
LegacyNotNull == {"SG_UF_NOT", "DT_NOTIFIC"}

Years == {2023, 2024}

\* A row mapping with every column.
FullRow(y, uti) ==
    [year |-> y, SG_UF_NOT |-> "SP", EVOLUCAO |-> "2", DT_NOTIFIC |-> "2023-06-01",
     SEM_NOT |-> "22", UTI |-> uti, VACINA_COV |-> "1", HOSPITAL |-> "1"]

\* A row mapping without the key UTI.
ShortRow(y) ==
    [year |-> y, SG_UF_NOT |-> "SP", EVOLUCAO |-> "2", DT_NOTIFIC |-> "2023-06-01",
     SEM_NOT |-> "22", VACINA_COV |-> "1", HOSPITAL |-> "1"]

GoodRows == {FullRow(y, u) : y \in Years, u \in {"1", NULL}}
InputRows == GoodRows \cup {FullRow(2023, UNBINDABLE), ShortRow(2023)}

SeqsUpTo(S, n) == UNION {[1..k -> S] : k \in 0..n}
Batches == SeqsUpTo(InputRows, MaxBatch)

\* insert's argument: None or a list of row mappings.
NoneArg == [none |-> TRUE, rows |-> <<>>]
ListArg(b) == [none |-> FALSE, rows |-> b]
InsertArgs == {NoneArg} \cup {ListArg(b) : b \in Batches}

\* get_data's argument: an int or a str.
IntArg(i) == [t |-> "int", i |-> i, s |-> ""]
StrArg(s) == [t |-> "str", i |-> 0, s |-> s]
YearArgs == {IntArg(2023), IntArg(2024), IntArg(2025), IntArg(2030),
             StrArg("all"), StrArg("2023")}

\* What a store call gives its caller.
RBool(b) == [kind |-> "bool", b |-> b, rows |-> <<>>]
RNone == [kind |-> "none", b |-> FALSE, rows |-> <<>>]
RTable(rows) == [kind |-> "table", b |-> FALSE, rows |-> rows]
RRaised == [kind |-> "raised", b |-> FALSE, rows |-> <<>>]

RECURSIVE SelectSeq2(_, _, _)
SelectSeq2(s, y, all) ==
    IF s = <<>> THEN <<>>
    ELSE IF all \/ Head(s).year = y
         THEN <<Head(s)>> \o SelectSeq2(Tail(s), y, all)
         ELSE SelectSeq2(Tail(s), y, all)

(***************************************************************************)
(* tools_utils/db/data_storage.py: the table has                           *)
(*   UNIQUE (year, SG_UF_NOT, EVOLUCAO, DT_NOTIFIC, SEM_NOT, UTI,          *)
(*           VACINA_COV, HOSPITAL)                                         *)
(* and the statement is INSERT ... ON CONFLICT DO NOTHING.  For a UNIQUE   *)
(* constraint SQLite holds every NULL distinct from every other value,     *)
(* another NULL included: two rows conflict only when all eight columns    *)
(* are equal and none is NULL.                                             *)
(***************************************************************************)
TextCols == AgenticCols \ {"year"}

UniqueConflict(a, b) ==
    /\ a.year = b.year
    /\ \A c \in TextCols : a[c] = b[c] /\ a[c] # NULL

Bindable(r, cols) == \A c \in cols \ {"year"} : r[c] # UNBINDABLE

HasKeys(d, cols) == cols \subseteq DOMAIN d

Project(d, cols) == [c \in cols |-> d[c]]

\* cursor.executemany(insertion_query, data_to_insert): row after row inside
\* the open transaction; a row that cannot be bound raises and leaves the
\* rows before it written.
RECURSIVE executemany(_, _)
executemany(t, tuples) ==
    IF tuples = <<>> THEN [ok |-> TRUE, t |-> t]
    ELSE LET r == Head(tuples) IN
         IF ~Bindable(r, AgenticCols) THEN [ok |-> FALSE, t |-> t]
         ELSE IF \E i \in 1..Len(t) : UniqueConflict(t[i], r)
              THEN executemany(t, Tail(tuples))
              ELSE executemany(Append(t, r), Tail(tuples))

\* get_cursor of tools_utils/db: commit when the body returns, rollback and
\* re-raise when it raises; the cursor is closed either way.
get_cursor(before, work) ==
    IF work.ok THEN [ok |-> TRUE, t |-> work.t]
    ELSE [ok |-> FALSE, t |-> before]

\* The except clause of insert and of get_data: self.error(...), then the
\* failure value; an exception raised in the clause leaves the method.
Except(value) == IF MainLoggerExposes("error") THEN value ELSE RRaised

\* SragDb.insert of tools_utils/db.
insert(t, data) ==
    IF data.none THEN [result |-> Except(RBool(FALSE)), t |-> t]
    ELSE IF ~MainLoggerExposes("info")                  \* line 71, in the try
         THEN [result |-> Except(RBool(FALSE)), t |-> t]
    ELSE IF \E i \in 1..Len(data.rows) : ~HasKeys(data.rows[i], AgenticCols)
         THEN [result |-> Except(RBool(FALSE)), t |-> t]          \* KeyError
    ELSE LET data_to_insert == [i \in 1..Len(data.rows) |->
                                    Project(data.rows[i], AgenticCols)]
             done == get_cursor(t, executemany(t, data_to_insert))
         IN  [result |-> IF done.ok THEN RBool(TRUE) ELSE Except(RBool(FALSE)),
              t |-> done.t]

\* SragDb.get_data of tools_utils/db.
AgenticSupported == {StrArg("all")} \cup {IntArg(y) : y \in 2019..2025}

get_data(t, year) ==
    IF year \notin AgenticSupported THEN Except(RNone)
    ELSE IF ~MainLoggerExposes("info") THEN RRaised     \* line 99, no try
    ELSE RTable(SelectSeq2(t, year.i, year = StrArg("all")))

(***************************************************************************)
(* src/db/data_storage.py: six columns, no UNIQUE constraint, SG_UF_NOT    *)
(* and DT_NOTIFIC NOT NULL.  get_cursor opens a new connection to srag.db  *)
(* for every unit of work and closes it in its finally clause; closing     *)
(* without a commit discards the open transaction.                         *)
(***************************************************************************)
RECURSIVE LegacyExecuteEach(_, _)
LegacyExecuteEach(t, rows) ==
    IF rows = <<>> THEN [ok |-> TRUE, t |-> t]
    ELSE LET d == Head(rows) IN
         IF ~HasKeys(d, LegacyCols) THEN [ok |-> FALSE, t |-> t]
         ELSE IF ~Bindable(d, LegacyCols) THEN [ok |-> FALSE, t |-> t]
         ELSE IF \E c \in LegacyNotNull : d[c] = NULL THEN [ok |-> FALSE, t |-> t]
         ELSE LegacyExecuteEach(Append(t, Project(d, LegacyCols)), Tail(rows))

LegacyGetCursor(before, work) ==
    IF work.ok THEN [ok |-> TRUE, t |-> work.t]
    ELSE [ok |-> FALSE, t |-> before]

LegacyInsert(t, data) ==
    IF data.none THEN [result |-> Except(RBool(FALSE)), t |-> t]
    ELSE IF ~MainLoggerExposes("info")                  \* line 62, in the try
         THEN [result |-> Except(RBool(FALSE)), t |-> t]
    ELSE LET done == LegacyGetCursor(t, LegacyExecuteEach(t, data.rows))
         IN  [result |-> IF done.ok THEN RBool(TRUE) ELSE Except(RBool(FALSE)),
              t |-> done.t]

\* The query text get_data builds and what running it gives: the table is
\* named data_sus, the query reads srag, and the WHERE clause is appended
\* without a space.
LegacySupported == {StrArg("all")} \cup
                   {StrArg(s) : s \in {"2019", "2020", "2021", "2022", "2023",
                                       "2024", "2025"}}
LegacyTables == {"data_sus"}

LegacyQuery(year) ==
    IF year = StrArg("all")
    THEN [from |-> "srag", parses |-> TRUE]
    ELSE [from |-> "sragWHERE", parses |-> FALSE]

LegacyGetData(t, year) ==
    IF year \notin LegacySupported THEN Except(RNone)
    ELSE IF ~MainLoggerExposes("info") THEN RRaised     \* line 77, no try
    ELSE LET q == LegacyQuery(year) IN
         IF q.parses /\ q.from \in LegacyTables
         THEN RTable(SelectSeq2(t, year.i, year = StrArg("all")))
         ELSE Except(RNone)

(***************************************************************************)
(* The store's calls.                                                      *)
(***************************************************************************)
NoCall == [op |-> "none", arg |-> NoneArg, year |-> IntArg(0), result |-> RNone,
           before |-> <<>>, repeat |-> FALSE]

Insert(data) ==
    /\ Len(tbl) + Len(data.rows) <= MaxRows
    /\ LET r == IF variant = "agentic" THEN insert(tbl, data)
                ELSE LegacyInsert(tbl, data)
       IN  /\ tbl' = r.t
           /\ call' = [op |-> "insert", arg |-> data, year |-> IntArg(0),
                       result |-> r.result, before |-> tbl,
                       repeat |-> (call.op = "insert" /\ call.arg = data)]
    /\ UNCHANGED <<logger, variant, node, status, messages, produced, llm_calls, issued,
                   run_in, buckets, scan, otherVars>>

GetData(year) ==
    /\ call' = [op |-> "get_data", arg |-> NoneArg, year |-> year,
                result |-> IF variant = "agentic" THEN get_data(tbl, year)
                           ELSE LegacyGetData(tbl, year),
                before |-> tbl, repeat |-> FALSE]
    /\ UNCHANGED <<logger, variant, tbl, node, status, messages, produced, llm_calls, issued,
                   run_in, buckets, scan, otherVars>>

(***************************************************************************)
(* The agent.  A message content is abstracted to what the code looks at:  *)
(* whether it is text that json.loads rejects ("text"), a JSON object      *)
(* ("dict") or another JSON value ("list"); for an object its keys and     *)
(* the value under figure_id; label tells contents apart.                  *)
(***************************************************************************)
MaxCalls == 2
ScanWindow == 10

NoFid == "(absent)"
NullFid == "null"

Text(label) == [form |-> "text", keys |-> {}, fid |-> NoFid, label |-> label]
Dict(keys, fid, label) == [form |-> "dict", keys |-> keys, fid |-> fid, label |-> label]
JsonList(label) == [form |-> "list", keys |-> {}, fid |-> NoFid, label |-> label]

SystemMessage == [type |-> "system", content |-> Text("tools"), tool_calls |-> <<>>,
                  tool_call_id |-> 0, name |-> ""]
HumanMessage(c) == [type |-> "human", content |-> Text(c), tool_calls |-> <<>>,
                    tool_call_id |-> 0, name |-> ""]
AIMessage(c, calls) == [type |-> "ai", content |-> Text(c), tool_calls |-> calls,
                        tool_call_id |-> 0, name |-> ""]
ToolMessage(c, id, n) == [type |-> "tool", content |-> c, tool_calls |-> <<>>,
                          tool_call_id |-> id, name |-> n]

\* self.tool_map's keys.
ToolMapNames == {"store_csvs", "get_data_dict", "summarize_numerical_data",
                 "generate_statistical_report", "generate_temporal_graphical_report"}

\* The tool calls the model may answer with: a bound tool, a name that is not
\* bound, and for summarize_numerical_data the arguments it passes under
\* columns / years: a list ("list"), a value that cannot be iterated
\* ("scalar"), or neither key ("absent").
CallShapes == {[name |-> "store_csvs", args |-> "absent"],
               [name |-> "summarize_numerical_data", args |-> "list"],
               [name |-> "summarize_numerical_data", args |-> "scalar"],
               [name |-> "no_such_tool", args |-> "absent"]}

ToolCall(shape, id) == [name |-> shape.name, args |-> shape.args, id |-> id]

CallLists(n) == UNION {[1..k -> CallShapes] : k \in 1..n}

\* What tool.invoke gives: an exception, or a value.
Outcomes == {"raise", "dict_plain", "dict_report", "dict_figure", "str_text",
             "str_json_list"}

(***************************************************************************)
(* _serialize_for_json at this abstraction.  A str or a float reaches no   *)
(* branch of the function, which then returns None: a str value under      *)
(* figure_id (or anywhere else) is serialized to null.  Keys are kept.     *)
(***************************************************************************)
_serialize_for_json(p) ==
    IF p.form = "dict"
    THEN [p EXCEPT !.fid = IF p.fid = NoFid THEN NoFid ELSE NullFid]
    ELSE p

\* Lines 149-173 for one call whose tool returned `out`: the tool-result
\* content, or "raise" when a statement of the try block raises.
ToolResultContent(out, id) ==
    CASE out = "dict_plain" ->
             _serialize_for_json(Dict({"status", "message"}, NoFid, "plain"))
      [] out = "dict_report" ->
             _serialize_for_json(Dict({"report"}, NoFid, "report"))
      [] out = "dict_figure" ->
             _serialize_for_json(Dict({"figure_id", "x", "y"}, "cases_all_2025", "figure"))
      [] out = "str_text" ->          \* json.loads fails: {"result": result}
             _serialize_for_json(Dict({"result"}, NoFid, "boxed"))
      [] OTHER -> Text("raise")       \* a list has no keys(): AttributeError

ErrorContent == Dict({"error", "tool"}, NoFid, "error")

\* Lines 126-143: the coercions, which run before the try block.
CoercionRaises(c) ==
    \/ c.name = "summarize_numerical_data" /\ c.args = "scalar"     \* TypeError
    \/ c.name = "summarize_numerical_data" /\ c.args = "list"
          /\ ~MainLoggerExposes("info")

\* Lines 147-183: the try block and its except clause, one tool-result turn.
ExecuteCall(c, out) ==
    IF c.name \notin ToolMapNames THEN ToolMessage(ErrorContent, c.id, c.name)
    ELSE IF out \in {"raise", "str_json_list"}
         THEN ToolMessage(ErrorContent, c.id, c.name)
    ELSE ToolMessage(ToolResultContent(out, c.id), c.id, c.name)

\* The for loop of call_tools over calls[i..]: the tool messages built, and
\* whether a statement outside the try block raised.
RECURSIVE CallLoop(_, _, _, _)
CallLoop(calls, outs, i, acc) ==
    IF i > Len(calls) THEN [raised |-> FALSE, tool_messages |-> acc]
    ELSE IF CoercionRaises(calls[i]) THEN [raised |-> TRUE, tool_messages |-> acc]
    ELSE CallLoop(calls, outs, i + 1, Append(acc, ExecuteCall(calls[i], outs[i])))

call_tools(msgs, outs) == CallLoop(msgs[Len(msgs)].tool_calls, outs, 1, <<>>)

\* Mutant of should_continue: the tool_calls test is dropped.
should_continue_always_tools(msgs) == "tools"

should_continue(msgs) ==
    IF msgs[Len(msgs)].tool_calls # <<>> THEN "tools" ELSE "END"

\* Mutant of WithSystem: the instruction is put in front whatever the
\* messages hold.
WithSystemAlways(msgs) == <<SystemMessage>> \o msgs

\* assistant, lines 196-250: the messages handed to the model.
WithSystem(msgs) ==
    IF Len(msgs) = 1 \/ msgs[1].type # "system"
    THEN <<SystemMessage>> \o msgs
    ELSE msgs

(***************************************************************************)
(* process_tool_results: the last ScanWindow messages, newest first.       *)
(***************************************************************************)
StatKeys == {"mean", "median", "std", "min", "max"}
UnderscoreKeys == {"_plotly_figure", "_type"}

EmptyStruct == Dict({}, NoFid, "empty")
EmptyBuckets == [figures |-> <<>>, report |-> <<>>, summary |-> <<>>,
                 struct |-> EmptyStruct]

\* Mutant of ExistingIds: no figure counts as recorded.
ExistingIdsNone(figures) == {}

ExistingIds(figures) == {figures[i].figure_id : i \in 1..Len(figures)}

\* The body of the loop for one message.
ClassifyOne(b, msg) ==
    IF msg.type # "tool" THEN b
    ELSE IF msg.content.form = "text" THEN b          \* JSONDecodeError: continue
    ELSE IF msg.content.form # "dict" THEN b
    ELSE LET r == msg.content
             b1 == IF "figure_id" \in r.keys /\ r.fid \notin ExistingIds(b.figures)
                   THEN [b EXCEPT !.figures =
                            Append(@, [figure_id |-> r.fid, label |-> r.label])]
                   ELSE b
             b2 == IF "report" \in r.keys
                   THEN [b1 EXCEPT !.report = Append(@, r.label)]
                   ELSE b1
             b3 == IF r.keys \cap StatKeys # {}
                   THEN [b2 EXCEPT !.summary = Append(@, r)]
                   ELSE b2
         IN  IF r.keys \cap UnderscoreKeys # {}
             THEN [b3 EXCEPT !.struct = r]
             ELSE b3

\* for msg in reversed(messages[-10:]), from index i down to index lo.
RECURSIVE ClassifyLoop(_, _, _, _)
ClassifyLoop(b, msgs, i, lo) ==
    IF i < lo THEN b
    ELSE ClassifyLoop(ClassifyOne(b, msgs[i]), msgs, i - 1, lo)

\* Mutant of ClassifyFrom: a content that is not JSON ends the loop (break
\* where the code has continue).
RECURSIVE ClassifyFromBreak(_, _, _, _)
ClassifyFromBreak(b, msgs, i, lo) ==
    IF i < lo THEN b
    ELSE IF msgs[i].type = "tool" /\ msgs[i].content.form = "text" THEN b
    ELSE ClassifyFromBreak(ClassifyOne(b, msgs[i]), msgs, i - 1, lo)

ClassifyFrom(b, msgs, i, lo) == ClassifyLoop(b, msgs, i, lo)

WindowStart(msgs) == IF Len(msgs) > ScanWindow THEN Len(msgs) - ScanWindow + 1 ELSE 1

process_tool_results(msgs, b) == ClassifyFrom(b, msgs, Len(msgs), WindowStart(msgs))

(***************************************************************************)
(* One run.  ReportInfo declares messages as a plain list, without a       *)
(* reducer: the graph stores what a node returns under "messages" in       *)
(* place of the list it held.                                              *)
(***************************************************************************)
UserMessages == {"", "  ", "question"}
Blank(m) == m \in {"", "  "}

\* The states run() is entered with: no state (a fresh one is made), or the
\* state an earlier run returned.
InitialMessages == {<<>>,
                    <<SystemMessage, HumanMessage("earlier"), AIMessage("reply", <<>>)>>}

NoStep == [ran |-> FALSE, calls |-> <<>>, outs |-> <<>>, tool_messages |-> <<>>,
           raised |-> FALSE]
NoRun == [user_message |-> "", started |-> FALSE, initial |-> <<>>]

\* run, lines 320-333: the human turn is appended and the graph entered.
Run(user_message) ==
    /\ status = "idle"
    /\ run_in' = [user_message |-> user_message, started |-> TRUE,
                  initial |-> messages]
    /\ messages' = Append(messages, HumanMessage(user_message))
    /\ node' = "assistant"
    /\ status' = "running"
    /\ UNCHANGED <<logger, variant, tbl, call, produced, llm_calls, issued, buckets, scan, otherVars>>

\* The model's answers: a turn without tool calls, or a turn with tool
\* calls while the run has asked for fewer than MaxCalls of them.
Responses(n) ==
    {AIMessage("answer", <<>>)} \cup
    {AIMessage("", [i \in 1..Len(cl) |-> ToolCall(cl[i], n + i)]) :
         cl \in CallLists(MaxCalls - n)}

\* The assistant node, then the conditional edge.
Assistant ==
    /\ status = "running"
    /\ node = "assistant"
    /\ \E response \in Responses(issued) :
          /\ messages' = WithSystem(messages) \o <<response>>
          /\ issued' = issued + Len(response.tool_calls)
          /\ node' = should_continue(messages')
    /\ llm_calls' = llm_calls + 1
    /\ UNCHANGED <<logger, variant, tbl, call, status, produced, run_in, buckets, scan, otherVars>>

\* The tools node, then the edge back to assistant.  An exception of
\* call_tools leaves the graph and run().
Tools ==
    /\ status = "running"
    /\ node = "tools"
    /\ \E outs \in [1..Len(messages[Len(messages)].tool_calls) -> Outcomes] :
          LET r == call_tools(messages, outs) IN
          /\ produced' = [ran |-> TRUE,
                          calls |-> messages[Len(messages)].tool_calls,
                          outs |-> outs, tool_messages |-> r.tool_messages,
                          raised |-> r.raised]
          /\ IF r.raised
             THEN /\ status' = "raised"
                  /\ UNCHANGED <<messages, node>>
             ELSE /\ messages' = r.tool_messages
                  /\ node' = "assistant"
                  /\ UNCHANGED status
    /\ UNCHANGED <<logger, variant, tbl, call, llm_calls, issued, run_in, buckets, scan, otherVars>>

\* run, lines 335-338: the graph has ended; classify and return.
Finish ==
    /\ status = "running"
    /\ node = "END"
    /\ buckets' = process_tool_results(messages, buckets)
    /\ status' = "returned"
    /\ UNCHANGED <<logger, variant, tbl, call, node, messages, produced, llm_calls, issued,
                   run_in, scan, otherVars>>

(***************************************************************************)
(* Specifications.                                                         *)
(***************************************************************************)
AgentIdle ==
    /\ node = "START"
    /\ status = "idle"
    /\ produced = NoStep
    /\ llm_calls = 0
    /\ issued = 0
    /\ run_in = NoRun
    /\ buckets = EmptyBuckets

StoreIdle ==
    /\ tbl = <<>>
    /\ call = NoCall

Init ==
    /\ logger \in LoggerClasses
    /\ variant = "agentic"
    /\ StoreIdle
    /\ AgentIdle
    /\ messages \in InitialMessages
    /\ scan = <<>>
    /\ OtherIdle

Next ==
    \/ \E m \in UserMessages : Run(m)
    \/ Assistant
    \/ Tools
    \/ Finish

Spec == Init /\ [][Next]_vars

InitStore ==
    /\ logger \in LoggerClasses
    /\ variant \in {"agentic", "legacy"}
    /\ StoreIdle
    /\ AgentIdle
    /\ messages = <<>>
    /\ scan = <<>>
    /\ OtherIdle

NextStore ==
    \/ \E data \in InsertArgs : Insert(data)
    \/ \E year \in YearArgs : GetData(year)

SpecStore == InitStore /\ [][NextStore]_vars

(***************************************************************************)
(* Claims about the store (SpecStore).                                     *)
(***************************************************************************)

SupportedYearArgs ==
    IF variant = "agentic" THEN AgenticSupported \ {StrArg("all")}
    ELSE LegacySupported \ {StrArg("all")}
YearOf(arg) == IF arg.t = "int" THEN arg.i
               ELSE CHOOSE y \in 2019..2025 : ToString(y) = arg.s
GetDataYearFilter ==
    call.op = "get_data" =>
        IF call.year = StrArg("all") THEN call.result = RTable(tbl)
        ELSE IF call.year \in SupportedYearArgs
             THEN call.result = RTable(SelectSeq2(tbl, YearOf(call.year), FALSE))
             ELSE call.result = RNone

\* C3: insert never raises and is all-or-nothing: it gives a boolean, and
\* when it gives False the table holds exactly the rows it held before.
InsertAllOrNothing ==
    call.op = "insert" =>
        /\ call.result.kind = "bool"
        /\ call.result.b = FALSE => tbl = call.before

(***************************************************************************)
(* Claims about the agent (Spec).                                          *)
(***************************************************************************)
ToolRaised(c, out) == c.name \notin ToolMapNames \/ out = "raise"

TurnsFor(msgs, id) == {i \in 1..Len(msgs) : msgs[i].type = "tool" /\ msgs[i].tool_call_id = id}

\* C4: when a tool invoked by the tools step raises (a name that is not in
\* the tool map included), the conversation holds exactly one tool-result
\* turn for that call, of content {error, tool}; the other calls of the turn
\* are executed too, and the run goes on instead of aborting.
Invoked(i) == i <= Len(produced.tool_messages)
ToolErrorRecovered ==
    produced.ran =>
        \A i \in 1..Len(produced.calls) :
            (Invoked(i) /\ ToolRaised(produced.calls[i], produced.outs[i])) =>
                /\ Cardinality(TurnsFor(messages, produced.calls[i].id)) = 1
                /\ \A k \in TurnsFor(messages, produced.calls[i].id) :
                       messages[k].content = ErrorContent
                /\ Len(produced.tool_messages) = Len(produced.calls)
                /\ status # "raised"

\* C5: for an assistant turn with tool calls c1..cn the tools step yields n
\* tool-result turns, the i-th with ci's call id and tool name.
ToolResultsInOrder ==
    produced.ran =>
        /\ Len(produced.tool_messages) = Len(produced.calls)
        /\ \A i \in 1..Len(produced.calls) :
               /\ produced.tool_messages[i].tool_call_id = produced.calls[i].id
               /\ produced.tool_messages[i].name = produced.calls[i].name

\* C6: the graph moves only START -> assistant, assistant -> tools when the
\* latest assistant turn has tool calls, assistant -> END when it has none,
\* and tools -> assistant.  (An exception that leaves call_tools is not a
\* transition: the graph stays at tools and END is not reached.)
LastHasToolCalls(msgs) == msgs # <<>> /\ msgs[Len(msgs)].tool_calls # <<>>
EdgeAllowed ==
    node' # node =>
        \/ node = "START" /\ node' = "assistant"
        \/ node = "assistant" /\ node' = "tools" /\ LastHasToolCalls(messages')
        \/ node = "assistant" /\ node' = "END" /\ ~LastHasToolCalls(messages')
        \/ node = "tools" /\ node' = "assistant"
GraphEdges == [][EdgeAllowed]_vars

\* C6, witness: a run that went through the tools step and ended.
EndedAfterTools == node = "END" /\ produced.ran /\ ~produced.raised

\* C7: the messages of a run are append-only; here for the tools step: the
\* messages held before it (the human turn and the assistant turn that asked
\* for the tools among them) are a prefix of the messages held after it.
IsPrefix(a, b) == Len(a) <= Len(b) /\ SubSeq(b, 1, Len(a)) = a
MessagesAppendOnly ==
    [][(status = "running" /\ node = "tools") => IsPrefix(messages, messages')]_vars

\* C8: run appends the message as one human turn and ends by returning a
\* state, the graph at END: no run stops in another way.
RunReturnsAtEnd ==
    status \in {"returned", "raised"} => (status = "returned" /\ node = "END")

\* C9: a blank user message makes run fail with an empty-input error before
\* the model is asked and before a human turn is appended.
BlankInputRejected ==
    (run_in.started /\ Blank(run_in.user_message)) =>
        /\ status = "error"
        /\ llm_calls = 0
        /\ messages = run_in.initial

(***************************************************************************)
(* SpecClassify: process_tool_results applied to a state whose messages    *)
(* and buckets the caller supplies (run accepts any initial_state).        *)
(***************************************************************************)
MaxScan == 11

ReportTurn == ToolMessage(Dict({"report"}, NoFid, "report"), 1, "generate_statistical_report")
NonJsonTurn == ToolMessage(Text("Traceback"), 2, "store_csvs")
ScanAlphabet == {HumanMessage("question"), ReportTurn, NonJsonTurn}

PriorBuckets == [figures |-> <<[figure_id |-> "cases_SP_2023", label |-> "figure"]>>,
                 report |-> <<"earlier">>, summary |-> <<>>, struct |-> EmptyStruct]

InitClassify ==
    /\ logger = MainLogger
    /\ variant = "agentic"
    /\ StoreIdle
    /\ AgentIdle
    /\ messages = <<>>
    /\ scan \in {[msgs |-> m, before |-> PriorBuckets, after |-> PriorBuckets,
                  done |-> FALSE] : m \in SeqsUpTo(ScanAlphabet, MaxScan)}
    /\ OtherIdle

Classify ==
    /\ ~scan.done
    /\ scan' = [scan EXCEPT !.after = process_tool_results(scan.msgs, scan.before),
                            !.done = TRUE]
    /\ UNCHANGED <<logger, variant, tbl, call, node, status, messages, produced,
                   llm_calls, issued, run_in, buckets, otherVars>>

NextClassify == Classify

SpecClassify == InitClassify /\ [][NextClassify]_vars

IsNonJsonTurn(m) == m.type = "tool" /\ m.content.form = "text"

Without(s, i) == SubSeq(s, 1, i - 1) \o SubSeq(s, i + 1, Len(s))
Replaced(s, i, m) == [s EXCEPT ![i] = m]

\* C10, as claimed: a tool-result turn that is not JSON is skipped, and the
\* buckets end as they would if that turn were absent from the messages.
NonJsonAsIfAbsent ==
    scan.done =>
        \A i \in 1..Len(scan.msgs) :
            IsNonJsonTurn(scan.msgs[i]) =>
                scan.after = process_tool_results(Without(scan.msgs, i), scan.before)

\* C10, amended: a tool-result turn that is not JSON contributes nothing:
\* the buckets end as they would if that turn held no tool result (a human
\* turn in its place), the entries they had before are kept in front, and
\* the other turns of the last ScanWindow messages contribute as before.
StartsWith(a, b) == IsPrefix(b, a)
NonJsonSkipped ==
    scan.done =>
        /\ StartsWith(scan.after.report, scan.before.report)
        /\ StartsWith(scan.after.figures, scan.before.figures)
        /\ \A i \in 1..Len(scan.msgs) :
              IsNonJsonTurn(scan.msgs[i]) =>
                  scan.after = process_tool_results(
                                   Replaced(scan.msgs, i, HumanMessage("question")),
                                   scan.before)

\* C10, witness: a turn that is not JSON was scanned between two well-formed
\* report results, and both were recorded.
NonJsonBetweenReports ==
    /\ scan.done
    /\ Len(scan.msgs) = 3
    /\ scan.msgs[1] = ReportTurn
    /\ IsNonJsonTurn(scan.msgs[2])
    /\ scan.msgs[3] = ReportTurn
    /\ scan.after.report = <<"earlier", "report", "report">>

(***************************************************************************)
(* SpecLogger: MainLogger constructions.  logging.getLogger(name) gives    *)
(* the one logger the process keeps under that name; the constructor       *)
(* attaches its stream handler only when that logger has none.             *)
(***************************************************************************)
MaxBuilds == 4

LoggerNames == {"src.utils.logger", "src.api.fast", "src.db.data_storage"}

\* Mutant of __init__: the handler is attached without the test.
__init__always_adds(attached) == attached + 1

\* MainLogger.__init__, lines 17-18: the handlers of the named logger after
\* the construction, given how many it had.
__init__(attached) == IF attached = 0 THEN attached + 1 ELSE attached

NoLoggers == [n \in LoggerNames |-> [built |-> 0, attached |-> 0]]

InitLogger ==
    /\ logger = MainLogger
    /\ variant = "agentic"
    /\ StoreIdle
    /\ AgentIdle
    /\ messages = <<>>
    /\ scan = <<>>
    /\ http = <<>>
    /\ ui = <<>>
    /\ handlers = NoLoggers

Construct(logger_name) ==
    /\ handlers[logger_name].built < MaxBuilds
    /\ handlers' = [handlers EXCEPT ![logger_name] =
                       [built |-> @.built + 1, attached |-> __init__(@.attached)]]
    /\ UNCHANGED <<logger, variant, tbl, call, node, status, messages, produced,
                   llm_calls, issued, run_in, buckets, scan, http, ui>>

NextLogger == \E logger_name \in LoggerNames : Construct(logger_name)

SpecLogger == InitLogger /\ [][NextLogger]_vars

\* C20: after any number of MainLogger constructions, under the same or
\* different names in any order, every named logger has at most one handler
\* attached, and exactly one once it was constructed.
AtMostOneHandler ==
    \A n \in LoggerNames :
        /\ handlers[n].attached <= 1
        /\ handlers[n].built > 0 => handlers[n].attached = 1

\* C20, witness: one name constructed three times, another once.
ConstructedRepeatedly ==
    \E n, m \in LoggerNames :
        /\ n # m
        /\ handlers[n].built = 3 /\ handlers[n].attached = 1
        /\ handlers[m].built = 1

(***************************************************************************)
(* SpecUi: the script of app.py.  Streamlit runs the whole script once per *)
(* interaction: the history loop renders first, then, when a prompt was    *)
(* submitted, the prompt handler appends to the history and renders the    *)
(* new turns on its own.                                                   *)
(***************************************************************************)
MaxTurns == 8

HistoryShown == 5

Prompts == {"how many cases in 2023", "store 2024"}

\* What agent.run gave back, as far as the handler looks at it: the kinds of
\* the messages of the result, or an exception.
RunRaised == <<"raised">>

RunResults == {RunRaised} \cup
              {<<>>, <<"ai">>, <<"tool", "ai">>, <<"ai", "tool">>, <<"ai", "tool", "ai">>}

Turn(role, content, timestamp) ==
    [role |-> role, content |-> content, timestamp |-> timestamp]

LastTurns(h, n) == IF Len(h) <= n THEN h ELSE SubSeq(h, Len(h) - n + 1, Len(h))

\* Mutant of HistoryWindow: the slice [:5].
HistoryWindowOldest(chat_history) ==
    IF Len(chat_history) <= HistoryShown THEN chat_history
    ELSE SubSeq(chat_history, 1, HistoryShown)

\* Line 42: chat_history[-5:].
HistoryWindow(chat_history) == LastTurns(chat_history, HistoryShown)

\* Lines 95-149, for reversed(result['messages']) from position i down: the
\* history after the appends and the assistant contents written to the page.
RECURSIVE HandleResult(_, _, _, _, _)
HandleResult(result, i, flag, chat_history, written) ==
    IF i = 0 THEN [chat_history |-> chat_history, written |-> written]
    ELSE IF result[i] = "tool"
         THEN HandleResult(result, i - 1, TRUE, chat_history, written)
         ELSE LET turn == Turn("assistant", "answer", Len(chat_history))
              IN  HandleResult(result, i - 1, FALSE,
                               Append(chat_history, turn),
                               IF flag THEN Append(written, turn) ELSE written)

InitUi ==
    /\ logger = MainLogger
    /\ variant = "agentic"
    /\ StoreIdle
    /\ AgentIdle
    /\ messages = <<>>
    /\ scan = <<>>
    /\ http = <<>>
    /\ handlers = <<>>
    /\ ui = [chat_history |-> <<>>, window |-> <<>>, echo |-> <<>>]

\* A run of the script without a prompt: the history loop only.
Rerun ==
    /\ ui' = [chat_history |-> ui.chat_history,
              window |-> HistoryWindow(ui.chat_history),
              echo |-> <<>>]
    /\ UNCHANGED <<logger, variant, tbl, call, node, status, messages, produced,
                   llm_calls, issued, run_in, buckets, scan, http, handlers>>

\* A run of the script with a prompt.
Submit(prompt, result) ==
    /\ Len(ui.chat_history) + 1 + Len(result) <= MaxTurns
    /\ LET user == Turn("user", prompt, Len(ui.chat_history))
           with_user == Append(ui.chat_history, user)
           handled == IF result = RunRaised
                      THEN [chat_history |-> with_user, written |-> <<>>]
                      ELSE HandleResult(result, Len(result), FALSE, with_user, <<>>)
       IN  ui' = [chat_history |-> handled.chat_history,
                  window |-> HistoryWindow(ui.chat_history),
                  echo |-> <<user>> \o handled.written]
    /\ UNCHANGED <<logger, variant, tbl, call, node, status, messages, produced,
                   llm_calls, issued, run_in, buckets, scan, http, handlers>>

NextUi ==
    \/ Rerun
    \/ \E prompt \in Prompts, result \in RunResults : Submit(prompt, result)

SpecUi == InitUi /\ [][NextUi]_vars

Imported == MainLoggerExposes("info")

\* Notification dates of the model, as pd.to_datetime reads them.
DateParts(s) ==
    CASE s = "2023-06-01" -> [y |-> 2023, m |-> 6, d |-> 1]
      [] s = "2023-06-03" -> [y |-> 2023, m |-> 6, d |-> 3]
      [] s = "2023-07-02" -> [y |-> 2023, m |-> 7, d |-> 2]
      [] s = "2024-01-05" -> [y |-> 2024, m |-> 1, d |-> 5]

DaysBefore(m) ==
    CASE m = 1 -> 0 [] m = 2 -> 31 [] m = 3 -> 59 [] m = 4 -> 90 [] m = 5 -> 120
      [] m = 6 -> 151 [] m = 7 -> 181 [] m = 8 -> 212 [] m = 9 -> 243
      [] m = 10 -> 273 [] m = 11 -> 304 [] m = 12 -> 334

\* Days since 2022-12-31, for dates before 2024-02-29.
Ordinal(p) == (p.y - 2023) * 365 + DaysBefore(p.m) + p.d

\* str.upper() on the state codes of the model.
Upper(s) ==
    CASE s = "sp" -> "SP" [] s = "rj" -> "RJ" [] s = "all" -> "ALL" [] OTHER -> s

\* A row of a downloaded CSV after the column selection and the year stamp.
CaseRow(y, date, uf, evolucao, uti) ==
    [year |-> y, SG_UF_NOT |-> uf, EVOLUCAO |-> evolucao, DT_NOTIFIC |-> date,
     SEM_NOT |-> "22", UTI |-> uti, VACINA_COV |-> "1", HOSPITAL |-> "1"]

\* The files behind the listing: two 2023 rows that share date and state,
\* and one 2024 row.
Csv(y) ==
    IF y = 2023
    THEN <<CaseRow(2023, "2023-06-01", "SP", "2", "1"),
           CaseRow(2023, "2023-06-01", "SP", "1", NULL)>>
    ELSE <<CaseRow(2024, "2024-01-05", "RJ", "1", "1")>>

\* What a handler or a tool gives its caller: an exception that leaves it,
\* or a value.
Raised(kind) == [raised |-> kind, body |-> <<>>]
Returned(body) == [raised |-> "", body |-> body]

\* FastAPI's response_model: the fields the schema declares are kept, the
\* other keys of the returned dict are dropped.
response_model(fields, payload) ==
    IF payload.raised # "" THEN payload
    ELSE Returned([f \in fields \cap DOMAIN payload.body |-> payload.body[f]])

ReportResponseSchema == {"status", "death_count", "death_rate", "total_cases",
                         "cases_hospitalized", "perc_uti", "perc_vaccinated"}

\* fast.py, lines 96 and 107.
ApiYears == 2021..2025
ApiGranularities == {"D", "ME", "SE", "M"}

\* tools.py, lines 187 and 191.
ToolYears == {"all", "2019", "2020", "2021", "2022", "2023", "2024", "2025"}
ToolGranularities == {"D", "W", "ME", "Q", "A"}

\* A percentage as the exact fraction num/den.
Zero == [num |-> 0, den |-> 1]

\* (count / total) * 100 if total > 0 else 0.
Pct(count, total) ==
    IF total > 0 THEN [num |-> count * 100, den |-> total] ELSE Zero

ReportError(report) ==
    [status |-> "error", report |-> report, death_count |-> 0, death_rate |-> Zero,
     total_cases |-> 0, cases_hospitalized |-> 0, perc_uti |-> Zero,
     perc_vaccinated |-> Zero]

Count(rows, Keep(_)) == Len(SelectSeq(rows, Keep))

\* Lines 131-185 of generate_report on a table that is not empty.
ReportBody(data, request) ==
    LET InState(r) == r.SG_UF_NOT = Upper(request.state)
        of_state == IF request.state # "" /\ request.state # "all"
                       /\ Upper(request.state) # "ALL"
                    THEN SelectSeq(data, InState) ELSE data
        Masked(r) == LET p == DateParts(r.DT_NOTIFIC) IN
                     /\ p.y = request.year
                     /\ p.m >= request.starting_month
                     /\ p.m <= request.ending_month
        filtered_data == SelectSeq(of_state, Masked)
        Died(r) == r.EVOLUCAO = "2"
        InHospital(r) == r.HOSPITAL = "1"
        InUti(r) == r.UTI = "1"
        Vaccinated(r) == r.VACINA_COV = "1"
        total_count == Len(filtered_data)
    IN  IF \E i \in 1..Len(data) : "EVOLUCAO" \notin DOMAIN data[i]
        THEN Raised("KeyError")                     \* line 146, then raise e
        ELSE Returned(
               [status |-> "success",
                death_count |-> Count(filtered_data, Died),
                death_rate |-> Pct(Count(filtered_data, Died), total_count),
                total_cases |-> total_count,
                cases_hospitalized |-> Count(filtered_data, InHospital),
                perc_uti |-> Pct(Count(filtered_data, InUti), total_count),
                perc_vaccinated |-> Pct(Count(filtered_data, Vaccinated), total_count)])

\* Mutant of generate_report: no test of what get_data gave.
generate_report_unchecked(t, request) ==
    IF request.year \notin ApiYears
    THEN [response |-> Returned(ReportError("Invalid year provided.")), reads |-> 0]
    ELSE IF request.granularity \notin ApiGranularities
    THEN [response |-> Returned(ReportError("Invalid granularity provided.")),
          reads |-> 0]
    ELSE LET data == LegacyGetData(t, IntArg(request.year)) IN
         IF data.kind = "raised"
         THEN [response |-> Raised("AttributeError"), reads |-> 1]
         ELSE IF data.kind = "none"
         THEN [response |-> Raised("TypeError"), reads |-> 1]
         ELSE [response |-> ReportBody(data.rows, request), reads |-> 1]

\* generate_report of fast.py: the returned dict, and the get_data calls made.
generate_report(t, request) ==
    IF request.year \notin ApiYears
    THEN [response |-> Returned(ReportError("Invalid year provided.")), reads |-> 0]
    ELSE IF request.granularity \notin ApiGranularities
    THEN [response |-> Returned(ReportError("Invalid granularity provided.")),
          reads |-> 0]
    ELSE LET data == LegacyGetData(t, IntArg(request.year)) IN
         IF data.kind = "raised"
         THEN [response |-> Raised("AttributeError"), reads |-> 1]
         ELSE IF data.kind = "none" \/ data.rows = <<>>
         THEN [response |-> Returned(ReportError("No data found for the specified year.")),
               reads |-> 1]
         ELSE [response |-> ReportBody(data.rows, request), reads |-> 1]

\* int() on the tools' year argument.
AsInt(s) == CASE s = "2023" -> 2023 [] s = "2024" -> 2024 [] s = "2030" -> 2030

\* logger.error(...) followed by raise: the exception that leaves the tool.
LoggedRaise(kind) ==
    IF MainLoggerExposes("error") THEN Raised(kind) ELSE Raised("AttributeError")

\* generate_statistical_report of tools.py.  Its arguments are strings.  With
\* a table in hand, line 209 calls datetime.date on a str: TypeError.
generate_statistical_report(t, request) ==
    IF request.year \notin ToolYears
    THEN [response |-> LoggedRaise("ValueError: year"), reads |-> 0]
    ELSE IF request.granularity \notin ToolGranularities
    THEN [response |-> LoggedRaise("ValueError: granularity"), reads |-> 0]
    ELSE IF ~MainLoggerExposes("info")                  \* get_db(): SragDb()
    THEN [response |-> Raised("AttributeError"), reads |-> 0]
    ELSE IF request.year = "all"                        \* int("all")
    THEN [response |-> Raised("ValueError: int"), reads |-> 0]
    ELSE LET data == LegacyGetData(t, IntArg(AsInt(request.year))) IN
         IF data.kind = "raised"
         THEN [response |-> Raised("AttributeError"), reads |-> 1]
         ELSE IF data.kind = "none"
         THEN [response |-> LoggedRaise("ValueError: no data"), reads |-> 1]
         ELSE [response |-> Raised("TypeError"), reads |-> 1]

States == {"all", "sp", "RJ"}

ReportRequests ==
    [year : {2023, 2030}, starting_month : {6, 7, 13}, ending_month : {6, 12},
     state : States, granularity : {"ME", "Q"}]

ToolReportRequests ==
    [year : {"2023", "2030", "all"}, starting_month : {"6"}, ending_month : {"12"},
     state : {"", "SP"}, granularity : {"D", "SE"}]

(***************************************************************************)
(* The temporal series.  groupby(['DT_NOTIFIC', 'SG_UF_NOT']).count()      *)
(* leaves one row per (date, state) pair that occurs; the resample over    *)
(* those rows has one bucket per period from the first date to the last,   *)
(* and count() gives, per bucket, how many of those rows fall in it.  A    *)
(* bucket is labelled by a number: the day's ordinal for 'D', the month's  *)
(* index for 'ME' and 'M'.  'SE' is no pandas frequency.  The weekly,      *)
(* quarterly and annual frequencies are not among the model's inputs.      *)
(***************************************************************************)
Groups(data) ==
    {[date |-> data[i].DT_NOTIFIC, uf |-> data[i].SG_UF_NOT] : i \in 1..Len(data)}

Bucket(date, granularity) ==
    LET p == DateParts(date) IN
    IF granularity = "D" THEN Ordinal(p) ELSE p.y * 12 + p.m

Least(S) == CHOOSE n \in S : \A k \in S : n <= k
Greatest(S) == CHOOSE n \in S : \A k \in S : n >= k

Resample(groups, granularity) ==
    LET at == {Bucket(g.date, granularity) : g \in groups} IN
    IF groups = {} THEN [x |-> <<>>, y |-> <<>>]
    ELSE LET lo == Least(at)
             hi == Greatest(at)
         IN  [x |-> [i \in 1..(hi - lo + 1) |-> lo + i - 1],
              y |-> [i \in 1..(hi - lo + 1) |->
                        Cardinality({g \in groups :
                                        Bucket(g.date, granularity) = lo + i - 1})]]

GraphicalReportResponseSchema == {"x", "y", "total_points", "state", "granularity",
                                  "message"}

\* request.state if request.state else "all".
StateOrAll(state) == IF state # "" THEN state ELSE "all"

GraphicalError(request, message) ==
    [status |-> "error", x |-> <<>>, y |-> <<>>, total_points |-> 0,
     state |-> StateOrAll(request.state), granularity |-> request.granularity,
     message |-> message]

\* generate_graphical_report of fast.py.
generate_graphical_report(t, request) ==
    IF request.year \notin ApiYears
    THEN [response |-> Returned(GraphicalError(request, "Invalid year provided.")),
          reads |-> 0]
    ELSE IF request.granularity \notin ApiGranularities
    THEN [response |-> Returned(GraphicalError(request, "Invalid granularity provided.")),
          reads |-> 0]
    ELSE LET data == LegacyGetData(t, IntArg(request.year)) IN
         IF data.kind = "raised"
         THEN [response |-> Raised("AttributeError"), reads |-> 1]
         ELSE IF data.kind = "none" \/ data.rows = <<>>
         THEN [response |-> Returned(GraphicalError(request,
                                "No data found for the specified year.")),
               reads |-> 1]
         ELSE IF request.granularity = "SE"
         THEN [response |-> Raised("ValueError: frequency"), reads |-> 1]
         ELSE LET grouped == IF request.state # ""
                             THEN {g \in Groups(data.rows) : g.uf = request.state}
                             ELSE Groups(data.rows)
                  series == Resample(grouped, request.granularity)
              IN  [response |-> Returned(
                       [x |-> series.x, y |-> series.y, total_points |-> Len(series.x),
                        state |-> StateOrAll(request.state),
                        message |-> "Graphical report generated successfully.",
                        granularity |-> request.granularity]),
                   reads |-> 1]

\* generate_temporal_graphical_report of tools.py.
generate_temporal_graphical_report(t, request) ==
    IF ~MainLoggerExposes("info")                       \* line 249
    THEN [response |-> Raised("AttributeError"), reads |-> 0]
    ELSE IF request.year \notin ToolYears
    THEN [response |-> LoggedRaise("ValueError: year"), reads |-> 0]
    ELSE IF request.granularity \notin ToolGranularities
    THEN [response |-> LoggedRaise("ValueError: granularity"), reads |-> 0]
    ELSE IF request.year = "all"                        \* int("all")
    THEN [response |-> Raised("ValueError: int"), reads |-> 0]
    ELSE LET data == LegacyGetData(t, IntArg(AsInt(request.year))) IN
         IF data.kind = "raised"
         THEN [response |-> Raised("AttributeError"), reads |-> 1]
         ELSE IF data.kind = "none"
         THEN [response |-> LoggedRaise("ValueError: no data"), reads |-> 1]
         ELSE LET grouped == IF request.state # ""
                             THEN {g \in Groups(data.rows) : g.uf = request.state}
                             ELSE Groups(data.rows)
                  series == Resample(grouped, request.granularity)
              IN  [response |-> Returned(
                       [x |-> series.x, y |-> series.y, total_points |-> Len(series.x),
                        state |-> StateOrAll(request.state), year |-> request.year,
                        granularity |-> request.granularity]),
                   reads |-> 1]

GraphicalRequests ==
    [year : {2023, 2024, 2030}, granularity : {"D", "ME", "Q"}, state : {"", "SP"}]

ToolSeriesRequests ==
    [year : {"2023", "2030"}, granularity : {"D", "SE"}, state : {"", "SP"}]

(***************************************************************************)
(* /summary.  The handler validates nothing: it reads the store for every  *)
(* year of the request, or for 2021..2025 when the list is empty, and      *)
(* calls fillna on what get_data gave.                                     *)
(***************************************************************************)
DefaultYears == <<2021, 2022, 2023, 2024, 2025>>

RECURSIVE SummaryLoop(_, _, _, _)
SummaryLoop(t, years, columns, reads) ==
    IF years = <<>>
    THEN [response |-> Returned([status |-> "success", summaries |-> columns]),
          reads |-> reads]
    ELSE LET year_data == LegacyGetData(t, IntArg(Head(years))) IN
         IF year_data.kind \in {"none", "raised"}       \* None.fillna
         THEN [response |-> Raised("AttributeError"), reads |-> reads + 1]
         ELSE IF \E i \in 1..Len(year_data.rows) :
                    ~(columns \subseteq DOMAIN year_data.rows[i])
         THEN [response |-> Raised("KeyError"), reads |-> reads + 1]
         ELSE SummaryLoop(t, Tail(years), columns, reads + 1)

summarize_data(t, request) ==
    SummaryLoop(t, IF request.years # <<>> THEN request.years ELSE DefaultYears,
                {Upper(c) : c \in request.columns}, 0)

SummaryResponseSchema == {"status", "summaries"}

SummaryRequests ==
    [years : {<<>>, <<2023>>, <<2030>>}, columns : {{"UTI"}, {"FOO"}}]

(***************************************************************************)
(* Acquisition.  The listing page answers with an HTTP error, without      *)
(* download anchors, or with its anchors: the data dictionary and one CSV  *)
(* per year; `fails` are the years whose CSV cannot be read.               *)
(***************************************************************************)
Links == <<[s3 |-> FALSE, year |-> 0], [s3 |-> TRUE, year |-> 2023],
           [s3 |-> TRUE, year |-> 2024]>>

Listed == {Links[i].year : i \in {j \in 1..Len(Links) : Links[j].s3}}

Portals == {[page |-> "error", fails |-> {}], [page |-> "empty", fails |-> {}]} \cup
           {[page |-> "listing", fails |-> f] : f \in SUBSET Listed}

NoPortal == [page |-> "none", fails |-> {}]

Items(portal) == IF portal.page = "listing" THEN Links ELSE <<>>

StoreError == [status |-> "error", message |-> "Failed to insert data into the database"]

Success(message) == [status |-> "success", message |-> message]

StoreResponseSchema == {"status", "message"}

\* The loop over the links in fast.py (lines 41-49 and 56-66) and in
\* store_csvs: the table after it, the years inserted, and why it stopped.
\* `check` says whether the loop looks at insert's result; `cols` are the
\* columns the frame keeps.
RECURSIVE AcquireLoop(_, _, _, _, _, _, _)
AcquireLoop(links, years, portal, check, cols, t, fetched) ==
    IF links = <<>> THEN [stop |-> "", t |-> t, fetched |-> fetched]
    ELSE LET link == Head(links) IN
         IF ~link.s3 \/ link.year \notin years
         THEN AcquireLoop(Tail(links), years, portal, check, cols, t, fetched)
         ELSE IF link.year \in portal.fails
         THEN [stop |-> "read_csv", t |-> t, fetched |-> fetched]
         ELSE LET frame == [i \in 1..Len(Csv(link.year)) |->
                               Project(Csv(link.year)[i], cols)]
                  r == LegacyInsert(t, ListArg(frame))
              IN  IF r.result.kind = "raised"
                  THEN [stop |-> "raised", t |-> r.t, fetched |-> fetched]
                  ELSE IF check /\ ~r.result.b
                  THEN [stop |-> "insert", t |-> r.t, fetched |-> fetched]
                  ELSE AcquireLoop(Tail(links), years, portal, check, cols, r.t,
                                   IF r.result.b THEN fetched \cup {link.year}
                                   ELSE fetched)

\* fetch_data of fast.py, the /store handler.
store(t, request, portal) ==
    IF portal.page = "error"                            \* raise_for_status
    THEN [response |-> Raised("HTTPStatusError"), t |-> t, fetched |-> {}]
    ELSE IF request.years # {}
    THEN LET done == AcquireLoop(Items(portal), request.years, portal, FALSE,
                                 AgenticCols, t, {})
         IN  [response |-> IF done.stop = ""
                           THEN Returned(Success("Data fetched and stored successfully with all available years."))
                           ELSE Returned(StoreError),
              t |-> done.t, fetched |-> done.fetched]
    ELSE LET done == AcquireLoop(Items(portal), Listed, portal, TRUE,
                                 AgenticCols, t, {})
         IN  [response |-> CASE done.stop = "" ->
                                  Returned(Success("Data fetched and stored successfully with all available years."))
                             [] done.stop = "insert" -> Returned(StoreError)
                             [] done.stop = "read_csv" -> Raised("URLError")
                             [] OTHER -> Raised("AttributeError"),
              t |-> done.t, fetched |-> done.fetched]

StoreRequests == [years : {{}, {2023}, {2024}, {2023, 2024}, {2030}}]

\* store_csvs of tools.py: one year, or 'all'.
store_csvs(t, year, portal) ==
    IF ~MainLoggerExposes("info")                       \* line 33
    THEN [response |-> Raised("AttributeError"), t |-> t, fetched |-> {}]
    ELSE IF year = "all"
    THEN LET done == AcquireLoop(Items(portal), Listed, portal, TRUE, LegacyCols, t, {})
         IN  [response |-> CASE done.stop = "" ->
                                  Returned(Success("Data inserted successfully"))
                             [] done.stop = "read_csv" -> LoggedRaise("URLError")
                             [] done.stop = "insert" -> LoggedRaise("NameError")
                             [] OTHER -> LoggedRaise("AttributeError"),
              t |-> done.t, fetched |-> done.fetched]
    ELSE LET wanted == {y \in Listed : ToString(y) = year}
             done == AcquireLoop(Items(portal), wanted, portal, TRUE, LegacyCols, t, {})
         IN  [response |-> CASE done.stop = "read_csv" -> LoggedRaise("URLError")
                             [] done.stop = "insert" -> LoggedRaise("Exception")
                             [] done.stop = "raised" -> LoggedRaise("AttributeError")
                             [] done.fetched # {} ->
                                  Returned(Success("Data inserted successfully"))
                             [] OTHER -> Returned([value |-> "None"]),
              t |-> done.t, fetched |-> done.fetched]

ToolStoreYears == {"all", "2023", "2026"}

\* The loop of fetch_data in tools_utils/tools_helper.py, lines 38-57 and
\* 64-85: it returns the frame of the first link it inserts.
RECURSIVE FetchLoop(_, _, _, _, _)
FetchLoop(links, years, portal, check, t) ==
    IF links = <<>> THEN [stop |-> "", t |-> t, fetched |-> {}]
    ELSE LET link == Head(links) IN
         IF ~link.s3 \/ link.year \notin years
         THEN FetchLoop(Tail(links), years, portal, check, t)
         ELSE IF link.year \in portal.fails
         THEN [stop |-> "read_csv", t |-> t, fetched |-> {}]
         ELSE LET r == insert(t, ListArg(Csv(link.year))) IN
              IF r.result.kind = "raised"
              THEN [stop |-> "raised", t |-> r.t, fetched |-> {}]
              ELSE IF check /\ ~r.result.b
              THEN [stop |-> "insert", t |-> r.t, fetched |-> {}]
              ELSE [stop |-> "return df", t |-> r.t,
                    fetched |-> IF r.result.b THEN {link.year} ELSE {}]

\* fetch_data of tools_utils/tools_helper.py.
fetch_data(t, request, portal) ==
    IF ~MainLoggerExposes("info")                       \* line 17
    THEN [response |-> Raised("AttributeError"), t |-> t, fetched |-> {}]
    ELSE IF portal.page = "error"                       \* raise_for_status
    THEN [response |-> Raised("HTTPStatusError"), t |-> t, fetched |-> {}]
    ELSE IF portal.page = "empty"                       \* items is None
    THEN [response |-> Returned([value |-> "None"]), t |-> t, fetched |-> {}]
    ELSE IF request.years # {}
    THEN LET done == FetchLoop(Items(portal), request.years, portal, FALSE, t)
         IN  [response |-> IF done.stop = "return df"
                           THEN Returned([value |-> "df"])
                           ELSE Returned([value |-> "None"]),
              t |-> done.t, fetched |-> done.fetched]
    ELSE LET done == FetchLoop(Items(portal), Listed, portal, TRUE, t)
         IN  [response |-> CASE done.stop = "return df" -> Returned([value |-> "df"])
                             [] done.stop = "read_csv" -> Raised("URLError")
                             [] done.stop = "raised" -> Raised("AttributeError")
                             [] OTHER -> Returned([value |-> "None"]),
              t |-> done.t, fetched |-> done.fetched]

(***************************************************************************)
(* The exchanges.  http keeps the last one: the operation, its request,    *)
(* the listing page it met, what the caller got, how many times get_data   *)
(* was called, the years inserted and the table before it.                 *)
(***************************************************************************)
NoExchange == [op |-> "none", request |-> <<>>, portal |-> NoPortal,
               response |-> Returned(<<>>), reads |-> 0, fetched |-> {},
               before |-> <<>>]

Exchange(op, request, portal, response, reads, fetched, before) ==
    [op |-> op, request |-> request, portal |-> portal, response |-> response,
     reads |-> reads, fetched |-> fetched, before |-> before]

Report(request) ==
    /\ Imported
    /\ variant = "legacy"
    /\ LET r == generate_report(tbl, request) IN
       http' = Exchange("report", request, NoPortal,
                        response_model(ReportResponseSchema, r.response),
                        r.reads, {}, tbl)
    /\ UNCHANGED <<logger, variant, tbl, call, node, status, messages, produced,
                   llm_calls, issued, run_in, buckets, scan, ui, handlers>>

GraphicalReport(request) ==
    /\ Imported
    /\ variant = "legacy"
    /\ LET r == generate_graphical_report(tbl, request) IN
       http' = Exchange("graphical_report", request, NoPortal,
                        response_model(GraphicalReportResponseSchema, r.response),
                        r.reads, {}, tbl)
    /\ UNCHANGED <<logger, variant, tbl, call, node, status, messages, produced,
                   llm_calls, issued, run_in, buckets, scan, ui, handlers>>

Summary(request) ==
    /\ Imported
    /\ variant = "legacy"
    /\ LET r == summarize_data(tbl, request) IN
       http' = Exchange("summary", request, NoPortal,
                        response_model(SummaryResponseSchema, r.response),
                        r.reads, {}, tbl)
    /\ UNCHANGED <<logger, variant, tbl, call, node, status, messages, produced,
                   llm_calls, issued, run_in, buckets, scan, ui, handlers>>

Store(request, portal) ==
    /\ Imported
    /\ variant = "legacy"
    /\ LET r == store(tbl, request, portal) IN
       /\ Len(r.t) <= MaxRows
       /\ tbl' = r.t
       /\ http' = Exchange("store", request, portal,
                           response_model(StoreResponseSchema, r.response),
                           0, r.fetched, tbl)
    /\ UNCHANGED <<logger, variant, call, node, status, messages, produced,
                   llm_calls, issued, run_in, buckets, scan, ui, handlers>>

ToolReport(request) ==
    /\ variant = "legacy"
    /\ LET r == generate_statistical_report(tbl, request) IN
       http' = Exchange("generate_statistical_report", request, NoPortal,
                        r.response, r.reads, {}, tbl)
    /\ UNCHANGED <<logger, variant, tbl, call, node, status, messages, produced,
                   llm_calls, issued, run_in, buckets, scan, ui, handlers>>

ToolSeries(request) ==
    /\ variant = "legacy"
    /\ LET r == generate_temporal_graphical_report(tbl, request) IN
       http' = Exchange("generate_temporal_graphical_report", request, NoPortal,
                        r.response, r.reads, {}, tbl)
    /\ UNCHANGED <<logger, variant, tbl, call, node, status, messages, produced,
                   llm_calls, issued, run_in, buckets, scan, ui, handlers>>

ToolStore(year, portal) ==
    /\ variant = "legacy"
    /\ LET r == store_csvs(tbl, year, portal) IN
       /\ Len(r.t) <= MaxRows
       /\ tbl' = r.t
       /\ http' = Exchange("store_csvs", [year |-> year], portal, r.response, 0,
                           r.fetched, tbl)
    /\ UNCHANGED <<logger, variant, call, node, status, messages, produced,
                   llm_calls, issued, run_in, buckets, scan, ui, handlers>>

Fetch(request, portal) ==
    /\ variant = "agentic"
    /\ LET r == fetch_data(tbl, request, portal) IN
       /\ Len(r.t) <= MaxRows
       /\ tbl' = r.t
       /\ http' = Exchange("fetch_data", request, portal, r.response, 0,
                           r.fetched, tbl)
    /\ UNCHANGED <<logger, variant, call, node, status, messages, produced,
                   llm_calls, issued, run_in, buckets, scan, ui, handlers>>

InitApi ==
    /\ logger \in LoggerClasses
    /\ variant \in {"agentic", "legacy"}
    /\ StoreIdle
    /\ AgentIdle
    /\ messages = <<>>
    /\ scan = <<>>
    /\ http = NoExchange
    /\ ui = <<>>
    /\ handlers = <<>>

NextApi ==
    \/ \E request \in ReportRequests : Report(request)
    \/ \E request \in GraphicalRequests : GraphicalReport(request)
    \/ \E request \in SummaryRequests : Summary(request)
    \/ \E request \in StoreRequests, portal \in Portals : Store(request, portal)
    \/ \E request \in ToolReportRequests : ToolReport(request)
    \/ \E request \in ToolSeriesRequests : ToolSeries(request)
    \/ \E year \in ToolStoreYears, portal \in Portals : ToolStore(year, portal)
    \/ \E request \in StoreRequests, portal \in Portals : Fetch(request, portal)

SpecApi == InitApi /\ [][NextApi]_vars

(***************************************************************************)
(* Properties of the reports.                                              *)
(***************************************************************************)
Field(r, c) == IF c \in DOMAIN r THEN r[c] ELSE NULL

\* A report request that meets every constraint.
ValidReport(request) ==
    /\ request.year \in ApiYears
    /\ request.granularity \in ApiGranularities
    /\ request.starting_month \in 1..12
    /\ request.ending_month \in 1..12
    /\ request.starting_month <= request.ending_month

\* The filtered set F of a report request over the table t, as positions.
FilteredSet(t, request) ==
    {i \in 1..Len(t) :
        /\ request.state = "all" \/ t[i].SG_UF_NOT = Upper(request.state)
        /\ DateParts(t[i].DT_NOTIFIC).y = request.year
        /\ DateParts(t[i].DT_NOTIFIC).m >= request.starting_month
        /\ DateParts(t[i].DT_NOTIFIC).m <= request.ending_month}

With(t, F, c, v) == Cardinality({i \in F : Field(t[i], c) = v})

IsFraction(p, num, den) == p.num * den = num * p.den

AnalyticalOps == {"summary", "report", "graphical_report"}

\* The request names a year outside 2021..2025 or a granularity outside
\* D, ME, SE, M.
OutOfRange(op, request) ==
    IF op = "summary"
    THEN \E i \in 1..Len(request.years) : request.years[i] \notin ApiYears
    ELSE request.year \notin ApiYears \/ request.granularity \notin ApiGranularities

OnlyMonthsInvalid(request) ==
    /\ request.year \in ApiYears
    /\ request.granularity \in ApiGranularities
    /\ \/ request.starting_month \notin 1..12
       \/ request.ending_month \notin 1..12
       \/ request.starting_month > request.ending_month

\* The text a payload carries about what went wrong, "" when it has none.
Description(body) ==
    IF "message" \in DOMAIN body THEN body.message
    ELSE IF "report" \in DOMAIN body THEN body.report
    ELSE ""

HttpOps == {"store", "summary", "report", "graphical_report"}

HasRows(t, year) == \E i \in 1..Len(t) : t[i].year = year

\* The request fails validation, or there is no data for it.
InvalidOrNoData(e) ==
    CASE e.op = "store" -> e.portal.page = "empty"
      [] e.op = "summary" ->
             \/ OutOfRange(e.op, e.request)
             \/ ~({Upper(c) : c \in e.request.columns} \subseteq AgenticCols)
             \/ \E i \in 1..Len(e.request.years) : ~HasRows(e.before, e.request.years[i])
      [] OTHER -> OutOfRange(e.op, e.request) \/ ~HasRows(e.before, e.request.year)

RECURSIVE SumSeq(_)
SumSeq(q) == IF q = <<>> THEN 0 ELSE Head(q) + SumSeq(Tail(q))

SeriesOps == {"graphical_report", "generate_temporal_graphical_report"}

SeriesYear(e) == IF e.op = "graphical_report" THEN e.request.year
                 ELSE AsInt(e.request.year)

SeriesValid(e) ==
    IF e.op = "graphical_report"
    THEN e.request.year \in ApiYears /\ e.request.granularity \in {"D", "ME"}
    ELSE e.request.year \in ToolYears \ {"all"} /\ e.request.granularity \in {"D", "ME"}

\* The stored rows a series request is about, as positions.
SeriesRows(e) ==
    {i \in 1..Len(e.before) :
        /\ e.before[i].year = SeriesYear(e)
        /\ e.request.state = "" \/ e.before[i].SG_UF_NOT = e.request.state}

AcquisitionOps == {"fetch_data", "store", "store_csvs"}

\* The years an acquisition request names.
Requested(e) ==
    IF e.op = "store_csvs"
    THEN IF e.request.year = "all" THEN Listed ELSE {}
    ELSE e.request.years

ToolsStepNeverRaises ==
    produced.ran =>
        /\ ~produced.raised
        /\ Len(produced.tool_messages) = Len(produced.calls)
        /\ \A i \in 1..Len(produced.calls) :
               produced.calls[i].args = "scalar" =>
                   produced.tool_messages[i].content = ErrorContent

(***************************************************************************)
(* SpecSerialize: the two serializers as functions of one value.  A value  *)
(* is [t, s, items]: t its Python type as the isinstance/hasattr tests see *)
(* it, s the text that tells it apart (for an object, what str() gives),   *)
(* items the values it holds.  A mapping holds entries; an entry holds its *)
(* key in s and its value in items.                                        *)
(***************************************************************************)
MaxItems == 2

Atom(t, s) == [t |-> t, s |-> s, items |-> <<>>]
List(items) == [t |-> "list", s |-> "", items |-> items]
Tuple(items) == [t |-> "tuple", s |-> "", items |-> items]
Mapping(entries) == [t |-> "dict", s |-> "", items |-> entries]
Entry(k, v) == [t |-> "entry", s |-> k, items |-> <<v>>]
\* An entry whose key is a tuple; s holds str(key).
TupleEntry(k, v) == [t |-> "tuple_entry", s |-> k, items |-> <<v>>]
\* An object with a to_dict method that returns `d`.
Frame(d) == [t |-> "frame", s |-> "", items |-> <<d>>]

None == Atom("none", "None")
PlotlyReference ==
    Mapping(<<Entry("_plotly_figure", Atom("bool", "True")),
              Entry("_type", Atom("str", "Figure"))>>)

\* StatisticalAgent._serialize_for_json on a value (the operator
\* _serialize_for_json above is the same function on the abstraction of a
\* message content).  The chain of tests ends without an else: a value that
\* reaches no branch, a str and a float among them, gives None.
RECURSIVE serialize_for_json(_)
serialize_for_json(obj) ==
    CASE obj.t = "figure" -> PlotlyReference
      [] obj.t \in {"int", "bool"} -> obj
      [] obj.t = "dict" ->
             Mapping([i \in 1..Len(obj.items) |->
                        Entry(obj.items[i].s,
                              serialize_for_json(obj.items[i].items[1]))])
      [] obj.t \in {"list", "tuple"} ->
             List([i \in 1..Len(obj.items) |-> serialize_for_json(obj.items[i])])
      [] obj.t = "date" -> Atom("str", obj.s)
      [] obj.t = "npint" -> Atom("int", obj.s)
      [] obj.t = "npfloat" -> Atom("float", obj.s)
      [] obj.t = "frame" -> serialize_for_json(obj.items[1])
      [] obj.t = "frame_raises" -> Atom("str", obj.s)
      [] OTHER -> None

\* JsonEncoder._process: the same tests, and `return obj` at the end.
RECURSIVE _process(_)
_process(obj) ==
    CASE obj.t = "figure" -> PlotlyReference
      [] obj.t = "npint" -> Atom("int", obj.s)
      [] obj.t = "npfloat" -> Atom("float", obj.s)
      [] obj.t = "date" -> Atom("str", obj.s)
      [] obj.t = "dict" ->
             Mapping([i \in 1..Len(obj.items) |->
                        Entry(obj.items[i].s, _process(obj.items[i].items[1]))])
      [] obj.t \in {"list", "tuple"} ->
             List([i \in 1..Len(obj.items) |-> _process(obj.items[i])])
      [] obj.t = "frame" -> _process(obj.items[1])
      [] obj.t = "frame_raises" -> Atom("str", obj.s)
      [] OTHER -> obj

\* The values a tool hands back: scalars, and containers of up to MaxItems
\* of them, one level of nesting below a mapping or a list.
Scalars ==
    {Atom("str", "2025-01-05"), Atom("float", "12.5"), Atom("int", "3"),
     Atom("bool", "True"), None, Atom("date", "2025-01-05"),
     Atom("npint", "3"), Atom("npfloat", "12.5"),
     Atom("object", "Decimal('1')"), Atom("object", "{1, 2}"),
     Atom("figure", "Figure"), Atom("frame_raises", "<frame>")}

JsonKeys == <<"x", "y", "z", "w">>

ScalarSeqs == UNION {[1..n -> Scalars] : n \in 0..MaxItems}
MappingOf(vals) == Mapping([i \in 1..Len(vals) |-> Entry(JsonKeys[i], vals[i])])

Flat ==
    Scalars
    \cup {List(q) : q \in ScalarSeqs}
    \cup {Tuple(q) : q \in ScalarSeqs}
    \cup {MappingOf(q) : q \in ScalarSeqs}
    \cup {Mapping(<<TupleEntry("('UTI', 1)", v)>>) : v \in Scalars}

SerializerInputs ==
    Flat
    \cup {Mapping(<<Entry("result", v)>>) : v \in Flat}
    \cup {List(<<v>>) : v \in Flat}
    \cup {Frame(MappingOf(<<v>>)) : v \in Scalars}

NoValue == Atom("(unset)", "")

InitSerialize ==
    /\ logger = MainLogger
    /\ variant = "agentic"
    /\ StoreIdle
    /\ AgentIdle
    /\ messages = <<>>
    /\ scan \in {[obj |-> v, serialized |-> NoValue, processed |-> NoValue,
                  done |-> FALSE] : v \in SerializerInputs}
    /\ OtherIdle

\* Both serializers applied to the value.
Serialize ==
    /\ ~scan.done
    /\ scan' = [scan EXCEPT !.serialized = serialize_for_json(scan.obj),
                            !.processed = _process(scan.obj),
                            !.done = TRUE]
    /\ UNCHANGED <<logger, variant, tbl, call, node, status, messages, produced,
                   llm_calls, issued, run_in, buckets, http, ui, handlers>>

NextSerialize == Serialize

SpecSerialize == InitSerialize /\ [][NextSerialize]_vars

\* The text str() gives for a value no branch recognizes.
TextualForm(obj) == Atom("str", obj.s)

\* C24: a value the serializer does not recognize is rendered as its
\* textual form, by both serializers, alone or under a key of the result;
\* it is never dropped or replaced by null.
UnrecognizedAsText ==
    scan.done =>
        /\ scan.obj.t = "object" =>
               /\ scan.serialized = TextualForm(scan.obj)
               /\ scan.processed = TextualForm(scan.obj)
        /\ (scan.obj.t = "dict" /\ Len(scan.obj.items) = 1
              /\ scan.obj.items[1].items[1].t = "object") =>
               /\ scan.serialized.items[1].items[1]
                      = TextualForm(scan.obj.items[1].items[1])
               /\ scan.processed.items[1].items[1]
                      = TextualForm(scan.obj.items[1].items[1])

RECURSIVE JsonSafe(_)
JsonSafe(obj) ==
    \/ obj.t \in {"str", "int", "float", "bool", "none"}
    \/ /\ obj.t = "list"
       /\ \A i \in 1..Len(obj.items) : JsonSafe(obj.items[i])
    \/ /\ obj.t = "dict"
       /\ \A i \in 1..Len(obj.items) :
              obj.items[i].t = "entry" /\ JsonSafe(obj.items[i].items[1])

\* C25: on a structure of strings, integers, floats, booleans, null, lists
\* and string-keyed mappings _serialize_for_json gives back an equal
\* structure, and the same as JsonEncoder._process.
SerializerIdentityOnJson ==
    (scan.done /\ JsonSafe(scan.obj)) =>
        /\ scan.serialized = scan.obj
        /\ scan.serialized = scan.processed

(***************************************************************************)
(* SpecStruct: process_tool_results over messages that hold results with   *)
(* a key starting with an underscore, short ones and ones longer than the  *)
(* scan window.                                                            *)
(***************************************************************************)
MaxStruct == 4

DictionaryTurn(label) ==
    ToolMessage(Dict({"_type", "EVOLUCAO"}, NoFid, label), 3, "get_data_dict")

StructAlphabet == {HumanMessage("question"), ReportTurn,
                   DictionaryTurn("dictionary_a"), DictionaryTurn("dictionary_b")}

\* Turns that fill the scan window but for its two oldest places.
Filler == [i \in 1..(ScanWindow - 2) |-> HumanMessage("question")]

StructInputs ==
    LET short == SeqsUpTo(StructAlphabet, MaxStruct)
    IN  short \cup {m \o Filler : m \in short}

InitStruct ==
    /\ logger = MainLogger
    /\ variant = "agentic"
    /\ StoreIdle
    /\ AgentIdle
    /\ messages = <<>>
    /\ scan \in {[msgs |-> m, before |-> PriorBuckets, after |-> PriorBuckets,
                  done |-> FALSE] : m \in StructInputs}
    /\ OtherIdle

NextStruct == Classify

SpecStruct == InitStruct /\ [][NextStruct]_vars

\* The scanned tool-result turns that have a key starting with an underscore.
UnderscoreTurns(msgs) ==
    {i \in WindowStart(msgs)..Len(msgs) :
        /\ msgs[i].type = "tool"
        /\ msgs[i].content.form = "dict"
        /\ msgs[i].content.keys \cap UnderscoreKeys # {}}

\* C22: after the classification step struct is the latest of the scanned
\* tool results that have a key starting with an underscore: the newest one
\* wins.
StructIsNewest ==
    (scan.done /\ UnderscoreTurns(scan.msgs) # {}) =>
        scan.after.struct = scan.msgs[Greatest(UnderscoreTurns(scan.msgs))].content

(***************************************************************************)
(* SpecExtract: extract_data_dictionary over the tables the document       *)
(* converter gives.  A table is the sequence of the texts of its cells.    *)
(***************************************************************************)
MaxCells == 3

RecognizedColumns == {"EVOLUCAO", "UTI", "DT_NOTIFIC", "SEM_NOT", "SG_UF_NOT",
                      "VACINA_COV", "HOSPITAL"}

\* Cell texts, and what the substring tests on texto.lower() give for each.
CellTexts == {"UTI", "EVOLUCAO", "Varchar2(1)", "Date", "Campo Obrigatorio",
              "Campo Number(8)", "1-Sim"}
HasTipo(texto) == texto \in {"Varchar2(1)", "Date", "Campo Number(8)"}
HasCampo(texto) == texto \in {"Campo Obrigatorio", "Campo Number(8)"}

NoLists == [colunas |-> <<>>, tipos |-> <<>>, caracteristicas |-> <<>>]

\* Lines 14-19 for one cell: the if / elif / elif chain.
ClassifyCell(lists, texto) ==
    IF texto \in RecognizedColumns
    THEN [lists EXCEPT !.colunas = Append(@, texto)]
    ELSE IF HasTipo(texto)
    THEN [lists EXCEPT !.tipos = Append(@, texto)]
    ELSE IF HasCampo(texto)
    THEN [lists EXCEPT !.caracteristicas = Append(@, texto)]
    ELSE lists

RECURSIVE ClassifyCells(_, _)
ClassifyCells(lists, cells) ==
    IF cells = <<>> THEN lists
    ELSE ClassifyCells(ClassifyCell(lists, Head(cells)), Tail(cells))

RECURSIVE Flatten(_)
Flatten(tables) == IF tables = <<>> THEN <<>> ELSE Head(tables) \o Flatten(Tail(tables))

NoneText == "(None)"
ItemOr(q, i) == IF i <= Len(q) THEN q[i] ELSE NoneText

\* Lines 22-27: structs[colunas[i]] = {...} for i in range(len(colunas)); a
\* later assignment under the same column name replaces the earlier one.
BuildStructs(lists) ==
    [c \in {lists.colunas[i] : i \in 1..Len(lists.colunas)} |->
        LET i == Greatest({k \in 1..Len(lists.colunas) : lists.colunas[k] = c})
        IN  [tipo |-> ItemOr(lists.tipos, i),
             caracteristicas |-> ItemOr(lists.caracteristicas, i)]]

\* The whole function: what it raises ("" when it returns), the three lists
\* it built and the mapping it returns.  logger.info(f"{texto}") runs after
\* the cells of each table: texto is unbound when the first table is empty.
extract_data_dictionary(tables) ==
    LET lists == ClassifyCells(NoLists, Flatten(tables)) IN
    IF ~MainLoggerExposes("info")
    THEN [raised |-> "AttributeError", lists |-> lists, structs |-> <<>>]
    ELSE IF tables # <<>> /\ Head(tables) = <<>>
    THEN [raised |-> "UnboundLocalError", lists |-> lists, structs |-> <<>>]
    ELSE [raised |-> "", lists |-> lists, structs |-> BuildStructs(lists)]

\* No table, one table, or two tables, of up to MaxCells cells in all.
TableInputs ==
    {<<>>}
    \cup {<<cells>> : cells \in SeqsUpTo(CellTexts, MaxCells)}
    \cup UNION {{<<SubSeq(cells, 1, k), SubSeq(cells, k + 1, Len(cells))>> :
                    k \in 0..Len(cells)} : cells \in SeqsUpTo(CellTexts, MaxCells)}

InitExtract ==
    /\ logger \in LoggerClasses
    /\ variant = "agentic"
    /\ StoreIdle
    /\ AgentIdle
    /\ messages = <<>>
    /\ scan \in {[tables |-> t, done |-> FALSE,
                  result |-> [raised |-> "", lists |-> NoLists, structs |-> <<>>]] :
                     t \in TableInputs}
    /\ OtherIdle

Extract ==
    /\ ~scan.done
    /\ scan' = [scan EXCEPT !.result = extract_data_dictionary(scan.tables),
                            !.done = TRUE]
    /\ UNCHANGED <<logger, variant, tbl, call, node, status, messages, produced,
                   llm_calls, issued, run_in, buckets, http, ui, handlers>>

NextExtract == Extract

SpecExtract == InitExtract /\ [][NextExtract]_vars

\* C27: the extractor returns a mapping in which the i-th recognized column
\* name has the i-th type and the i-th characteristics, or no value where
\* that list is shorter; and a cell goes to at most one of the three lists.
PositionalPairing ==
    scan.done =>
        LET r == scan.result IN
        /\ r.raised = ""
        /\ \A i \in 1..Len(r.lists.colunas) :
               r.structs[r.lists.colunas[i]] =
                   [tipo |-> ItemOr(r.lists.tipos, i),
                    caracteristicas |-> ItemOr(r.lists.caracteristicas, i)]
        /\ Len(r.lists.colunas) + Len(r.lists.tipos) + Len(r.lists.caracteristicas)
              <= Len(Flatten(scan.tables))

(***************************************************************************)
(* SpecConnection: the connections of one SragDb instance.  Connections    *)
(* are numbered in the order sqlite3.connect is called; opened[c] is the   *)
(* file of connection c, live the set of connections not closed, conn the  *)
(* one self.conn names, stored the units of work whose writes the database *)
(* holds.                                                                  *)
(***************************************************************************)
MaxUnits == 7

NoUnit == [op |-> "none", work |-> "ok", raised |-> "", durable |-> FALSE,
           cursor_closed |-> FALSE, conn_used |-> 0]

NoStore == [instance |-> FALSE, conn |-> 0, opened |-> <<>>, live |-> {},
            stored |-> <<>>, units |-> 0, last |-> NoUnit]

\* sqlite3.connect(file), assigned to self.conn.
Connect(st, file) ==
    [st EXCEPT !.opened = Append(@, file),
               !.conn = Len(st.opened) + 1,
               !.live = @ \cup {Len(st.opened) + 1}]

\* Agentic get_cursor around a body that succeeds (work = "ok") or raises:
\* self.conn is kept; commit, or rollback and re-raise; cursor.close() in
\* finally.
ConnGetCursor(st, op, work) ==
    IF ~MainLoggerExposes("info")
    THEN [st EXCEPT !.last = [op |-> op, work |-> work, raised |-> "AttributeError",
                              durable |-> FALSE, cursor_closed |-> FALSE,
                              conn_used |-> st.conn]]
    ELSE [st EXCEPT !.stored = IF work = "ok" THEN Append(@, st.units + 1) ELSE @,
                    !.last = [op |-> op, work |-> work,
                              raised |-> IF work = "ok" THEN "" ELSE "Exception",
                              durable |-> work = "ok", cursor_closed |-> TRUE,
                              conn_used |-> st.conn]]

\* Legacy get_cursor: `if self.conn:` holds for any connection object, so a
\* connection to srag.db is opened for every unit of work; commit on
\* success, cursor.close() only in the except clause, and self.conn.close()
\* in finally, which discards what was not committed.  With a logger that
\* has no info the finally clause raises before it closes the connection.
LegacyConnGetCursor(st, op, work) ==
    LET c == Connect(st, "srag.db") IN
    IF ~MainLoggerExposes("info")
    THEN [c EXCEPT !.last = [op |-> op, work |-> work, raised |-> "AttributeError",
                             durable |-> FALSE, cursor_closed |-> FALSE,
                             conn_used |-> c.conn]]
    ELSE [c EXCEPT !.stored = IF work = "ok" THEN Append(@, st.units + 1) ELSE @,
                   !.live = @ \ {c.conn},
                   !.last = [op |-> op, work |-> work,
                             raised |-> IF work = "ok" THEN "" ELSE "Exception",
                             durable |-> work = "ok",
                             cursor_closed |-> work # "ok",
                             conn_used |-> c.conn]]

UnitOfWork(st, op, work) ==
    IF variant = "agentic" THEN ConnGetCursor(st, op, work)
    ELSE LegacyConnGetCursor(st, op, work)

\* SragDb.__init__: connect to data_sus.db, then _check_schema, a unit of
\* work; an exception of it leaves the constructor and no instance exists.
SragDbInit(st) ==
    LET u == UnitOfWork(Connect(st, "data_sus.db"), "_check_schema", "ok")
    IN  [u EXCEPT !.instance = u.last.raised = "", !.units = 1]

InitConnection ==
    /\ logger \in LoggerClasses
    /\ variant \in {"agentic", "legacy"}
    /\ StoreIdle
    /\ AgentIdle
    /\ messages = <<>>
    /\ scan = NoStore
    /\ OtherIdle

NewStore ==
    /\ scan = NoStore
    /\ scan' = SragDbInit(scan)
    /\ UNCHANGED <<logger, variant, tbl, call, node, status, messages, produced,
                   llm_calls, issued, run_in, buckets, http, ui, handlers>>

\* insert's unit of work, whose body succeeds or raises.
InsertUnit(work) ==
    /\ scan.instance
    /\ scan.units < MaxUnits
    /\ scan' = [UnitOfWork(scan, "insert", work) EXCEPT !.units = scan.units + 1]
    /\ UNCHANGED <<logger, variant, tbl, call, node, status, messages, produced,
                   llm_calls, issued, run_in, buckets, http, ui, handlers>>

NextConnection ==
    \/ NewStore
    \/ \E work \in {"ok", "raise"} : InsertUnit(work)

SpecConnection == InitConnection /\ [][NextConnection]_vars

\* C26: a store uses one connection for its whole life; every unit of work
\* (the schema check, an insert) keeps its writes when it succeeds and
\* loses them when it raises, releases its cursor in both cases, and leaves
\* the connection open for the next unit of work on the same database file.
OneConnectionPerStore ==
    scan.last.op # "none" =>
        /\ Len(scan.opened) = 1
        /\ scan.last.durable = (scan.last.work = "ok")
        /\ scan.last.cursor_closed
        /\ scan.conn \in scan.live
        /\ scan.opened[scan.last.conn_used] = scan.opened[1]

(***************************************************************************)
(* SpecSession: one UI session of app.py over the agent.  Each submitted   *)
(* prompt runs the agent on the state the session holds (agent_state, the  *)
(* result of the run before); the graph steps are the actions Assistant,   *)
(* Tools and Finish above.  ui.submitted counts the prompts submitted and  *)
(* ui.returned the runs that returned a result.                            *)
(***************************************************************************)
MaxPrompts == 2

SessionPrompts == {"question"}

\* What line 149 appends to agent_state['messages']: message.content, a str.
StrMessage(c) == [type |-> "str", content |-> c, tool_calls |-> <<>>,
                  tool_call_id |-> 0, name |-> ""]

\* Lines 109-120: items[year].keys() for each key of the tool result.  The
\* values a modelled result holds under its keys are a str or null, which
\* have no keys(): AttributeError.
RenderRaises(msg) == msg.name = "summarize_numerical_data"

\* Lines 95-149, for reversed(result['messages']) from position i down: the
\* history after the appends, the contents appended to the agent state, and
\* whether a statement raised (lines 151-153 then end the handler).
RECURSIVE HandleMessages(_, _, _, _)
HandleMessages(msgs, i, chat_history, contents) ==
    IF i = 0
    THEN [chat_history |-> chat_history, contents |-> contents, raised |-> FALSE]
    ELSE IF msgs[i].type = "tool"
    THEN IF RenderRaises(msgs[i])
         THEN [chat_history |-> chat_history, contents |-> contents, raised |-> TRUE]
         ELSE HandleMessages(msgs, i - 1, chat_history, contents)
    ELSE IF msgs[i].type = "ai"
    THEN HandleMessages(msgs, i - 1,
                        Append(chat_history,
                               Turn("assistant", msgs[i].content.label,
                                    Len(chat_history))),
                        Append(contents, StrMessage(msgs[i].content)))
    ELSE HandleMessages(msgs, i - 1, chat_history, contents)

InitSession ==
    /\ logger \in LoggerClasses
    /\ variant = "agentic"
    /\ StoreIdle
    /\ AgentIdle
    /\ messages = <<>>
    /\ scan = <<>>
    /\ http = <<>>
    /\ handlers = <<>>
    /\ ui = [chat_history |-> <<>>, window |-> <<>>, echo |-> <<>>,
             submitted |-> 0, returned |-> 0]

\* Lines 42-85: the script runs with a prompt; the user turn is appended and
\* agent.run is entered with the session's agent_state (run, lines 320-333).
Ask(prompt) ==
    /\ status = "idle"
    /\ ui.submitted < MaxPrompts
    /\ ui' = [ui EXCEPT !.chat_history =
                            Append(@, Turn("user", prompt, Len(ui.chat_history))),
                        !.window = HistoryWindow(ui.chat_history),
                        !.echo = <<Turn("user", prompt, Len(ui.chat_history))>>,
                        !.submitted = @ + 1]
    /\ run_in' = [user_message |-> prompt, started |-> TRUE, initial |-> messages]
    /\ messages' = Append(messages, HumanMessage(prompt))
    /\ node' = "assistant"
    /\ status' = "running"
    /\ UNCHANGED <<logger, variant, tbl, call, produced, llm_calls, issued, buckets,
                   scan, http, handlers>>

\* Lines 87-149: run returned; the result becomes the agent_state and its
\* messages are walked.
Reply ==
    /\ status = "returned"
    /\ LET r == HandleMessages(messages, Len(messages), ui.chat_history, <<>>) IN
       /\ ui' = [ui EXCEPT !.chat_history = r.chat_history,
                           !.returned = @ + 1]
       /\ messages' = messages \o r.contents
    /\ status' = "idle"
    /\ UNCHANGED <<logger, variant, tbl, call, node, produced, llm_calls, issued,
                   run_in, buckets, scan, http, handlers>>

\* Lines 151-153: run raised.  agent_state is not replaced; its messages
\* list got the human turn, which run appended in place (line 331).
Failed ==
    /\ status = "raised"
    /\ messages' = Append(run_in.initial, HumanMessage(run_in.user_message))
    /\ status' = "idle"
    /\ UNCHANGED <<logger, variant, tbl, call, node, produced, llm_calls, issued,
                   run_in, buckets, scan, http, ui, handlers>>

NextSession ==
    \/ \E prompt \in SessionPrompts : Ask(prompt)
    \/ Assistant
    \/ Tools
    \/ Finish
    \/ Reply
    \/ Failed

SpecSession == InitSession /\ [][NextSession]_vars

SystemTurns(msgs) == {i \in 1..Len(msgs) : msgs[i].type = "system"}

\* C21: after every assistant step the messages hold exactly one system
\* instruction, and it is the first message: on a fresh state, on the state
\* an earlier run returned, and on the messages a tools step produced.
SystemFirstOnce ==
    (status = "running" /\ node \in {"tools", "END"}) =>
        /\ messages[1].type = "system"
        /\ Cardinality(SystemTurns(messages)) = 1

\* C21, witness: the assistant step of a later run of the session, on a
\* state whose messages an earlier run's tools step produced.
SystemKeptOnReuse ==
    /\ status = "running"
    /\ node = "END"
    /\ ui.returned >= 1
    /\ Len(messages) >= 6
    /\ messages[1].type = "system"
    /\ messages[2].type = "tool"
    /\ messages[Len(messages)].type = "ai"

(***************************************************************************)
(* SpecFigures: runs that reuse the returned state, as far as the figures  *)
(* go.  The graph of a run ends with the messages it started with plus the *)
(* human and the assistant turn when the model asked for no tool, and with *)
(* the instruction, the tool-result turns of the last tools step and the   *)
(* assistant turn otherwise; process_tool_results then classifies them     *)
(* into the buckets the state holds.                                       *)
(***************************************************************************)
MaxRuns == 3
MaxFigureTurns == 2

FigureTurn(fid) ==
    ToolMessage(Dict({"figure_id", "x", "y"}, fid, "figure"), 4,
                "generate_temporal_graphical_report")

FigureAlphabet == {FigureTurn("cases_SP_2023"), FigureTurn("cases_all_2025"),
                   FigureTurn(NullFid), ReportTurn}

\* result["messages"] of a run whose last tools step gave `turns`.
GraphResult(msgs, turns) ==
    IF turns = <<>>
    THEN WithSystem(Append(msgs, HumanMessage("question")))
             \o <<AIMessage("answer", <<>>)>>
    ELSE <<SystemMessage>> \o turns \o <<AIMessage("answer", <<>>)>>

FigureIds(msgs) ==
    {msgs[i].content.fid : i \in {k \in WindowStart(msgs)..Len(msgs) :
                                     /\ msgs[k].type = "tool"
                                     /\ "figure_id" \in msgs[k].content.keys}}

InitFigures ==
    /\ logger = MainLogger
    /\ variant = "agentic"
    /\ StoreIdle
    /\ AgentIdle
    /\ messages = <<>>
    /\ scan = [msgs |-> <<>>, buckets |-> EmptyBuckets, runs |-> 0, seen |-> {}]
    /\ OtherIdle

\* run, lines 331-338, on the state the run before returned; seen collects
\* the figure ids of the tool-result turns scanned so far.
RunAgain(turns) ==
    /\ scan.runs < MaxRuns
    /\ LET result == GraphResult(scan.msgs, turns) IN
       scan' = [msgs |-> result,
                buckets |-> process_tool_results(result, scan.buckets),
                runs |-> scan.runs + 1,
                seen |-> scan.seen \cup FigureIds(result)]
    /\ UNCHANGED <<logger, variant, tbl, call, node, status, messages, produced,
                   llm_calls, issued, run_in, buckets, http, ui, handlers>>

NextFigures == \E turns \in SeqsUpTo(FigureAlphabet, MaxFigureTurns) : RunAgain(turns)

SpecFigures == InitFigures /\ [][NextFigures]_vars

Recorded(figures, fid) == {i \in 1..Len(figures) : figures[i].figure_id = fid}

\* C23: after any sequence of runs on a reused state the figure descriptors
\* have pairwise distinct figure_id values, and every figure_id a scanned
\* tool result carried is recorded exactly once, under the fixed projection
\* of the result.
FiguresRecordedOnce ==
    LET figures == scan.buckets.figures IN
    /\ \A i, j \in 1..Len(figures) :
           i # j => figures[i].figure_id # figures[j].figure_id
    /\ \A fid \in scan.seen :
           /\ Cardinality(Recorded(figures, fid)) = 1
           /\ \A i \in Recorded(figures, fid) : figures[i].label = "figure"

\* C23, witness: two figures are recorded after a later run scanned a
\* result whose figure_id an earlier run had recorded.
FigureRescanned ==
    /\ scan.runs >= 2
    /\ Len(scan.buckets.figures) = 2
    /\ scan.buckets.figures[1].figure_id \in FigureIds(scan.msgs)
    /\ scan.buckets.figures[2].figure_id \in FigureIds(scan.msgs)

(***************************************************************************)
(* Claims about a session (SpecSession).                                   *)
(***************************************************************************)
TurnsOf(h, role) == {i \in 1..Len(h) : h[i].role = role}

\* C28: over the submissions of a session that reuses the agent state, each
\* submission adds exactly one user turn to the chat history and each
\* assistant reply is added exactly once: between submissions the history
\* holds one user turn per prompt submitted and one assistant turn per run
\* that returned its reply.
OneTurnPerReply ==
    status = "idle" =>
        /\ Cardinality(TurnsOf(ui.chat_history, "user")) = ui.submitted
        /\ Cardinality(TurnsOf(ui.chat_history, "assistant")) = ui.returned

\* C29: over the runs of a session that reuse the returned state, each tool
\* result is recorded at most once in the report and summary buckets: the
\* buckets never hold more entries than tool calls were executed.
ResultsRecordedOnce ==
    /\ Len(buckets.report) <= issued
    /\ Len(buckets.summary) <= issued

====
